---- MODULE Spec2Model ----
(***************************************************************************)
(* A model of the git-opr server: the task manager (enqueue_task and the   *)
(* run coroutine it spawns), the task store and its cleanup sweep, the     *)
(* repository registry with its per-repository asyncio locks, and the      *)
(* configuration reload loop.                                               *)
(*                                                                         *)
(* All coroutines run on one asyncio event loop.  An action of the model   *)
(* is what a coroutine does between two suspension points.  The one git    *)
(* call that is made synchronously on the loop (the checkout in            *)
(* clone_or_sync) owns the loop while it runs: loop_busy names its owner   *)
(* and every other coroutine waits for it.                                 *)
(*                                                                         *)
(* Time is counted in minutes since the server modules were imported.      *)
(*                                                                         *)
(* The file and folder methods of one AsyncGit handle are modelled over a  *)
(* file system that maps absolute paths to directories and files.  A       *)
(* Python str is the sequence of its characters, so that os.path and the   *)
(* str tests of _ensure_within_repo are computed as the library computes   *)
(* them.                                                                   *)
(*                                                                         *)
(* The git side of a handle is a clone whose branches are linear           *)
(* histories of commits: the remote's main branch, the remote-tracking     *)
(* origin/main, the local main branch and the state of the working tree.   *)
(***************************************************************************)
EXTENDS Integers, Sequences, FiniteSets, TLC

\* ------------------------------------------------------------------ bounds
MaxTasks == 2          \* tasks enqueued in one run
MaxGen == 2            \* handler/lock pairs built for one repository id
MaxTime == 15          \* the clock stops here
TickStep == 5          \* minutes by which the clock advances
MaxCalls == 3          \* calls made on one handle
MaxCommits == 3        \* commits made in one run, the first one included

\* ------------------------------------------------------- program constants
TASK_EXPIRATION == 10  \* minutes; config.TASK_EXPIRATION
IMPORT_TIME == 0       \* when models/tasks.py was imported (class body run)
HTTP_200_OK == 200

Repos == {"rA", "rB"}
Users == {"u1", "u2"}
Messages == {"Create folder: x"}
\* the description the rename route gives its task, and the NameError its
\* action raises: the lambda reads req.old_path, and no req is defined
RENAME_MESSAGE == "Rename file from a to b"
NAME_ERROR == "name 'req' is not defined"
TaskName == <<"t1", "t2", "t3", "t4">>
TaskIds == {TaskName[i] : i \in 1..MaxTasks}
NoOne == "none"
None == "None"
ReloadLoop == "reload"
SyncName ==
    [r \in {"rA", "rB"} |->
        IF r = "rA" THEN <<"sA1", "sA2", "sA3", "sA4">>
        ELSE <<"sB1", "sB2", "sB3", "sB4">>]

NoHandle == <<NoOne, 0>>
LockIds == Repos \X (1..MaxGen)

\* TaskStatus
IN_PROGRESS == "PENDING"
COMPLETED == "OK"
FAILED == "ERROR"

VARIABLES
    now,            \* the wall clock
    task_store,     \* task_manager.task_store: task id -> TaskModel
    git_instances,  \* task_manager.git_instances: repo id -> handler (its generation)
    git_locks,      \* task_manager.git_locks: repo id -> lock (its generation)
    locks,          \* every asyncio.Lock ever built: holder and FIFO of waiters
    lock_gen,       \* per repo id, how many handler/lock pairs were built so far
    run,            \* per task id, the run() coroutine: position and closure
    n_created,      \* task ids handed out
    returned,       \* per task id, what enqueue_task returned to its caller
    enqueued_at,    \* per task id, the time of its create_task call
    loop_busy,      \* the coroutine running a synchronous call on the loop
    config_file,    \* the repositories file on disk
    repos_config,   \* reposFile.repos: ids of the last configuration loaded
    reload,         \* the reload_repo_config_periodically coroutine
    sync_loops,     \* per handler ever built, its sync_repo_periodically coroutine
    base_folder,    \* AsyncGit.base_folder of the handle under study
    fs,             \* the file system: absolute path -> directory or file
    last,           \* the last call made on the handle and how it ended
    git,            \* the clone at local_path and the remote it tracks
    permissions,    \* RepoConfig.permissions of the configured repository
    access          \* the last permission check made and how it ended

TaskVars == <<now, task_store, git_instances, git_locks, locks, lock_gen, run,
              n_created, returned, enqueued_at, loop_busy, config_file,
              repos_config, reload, sync_loops>>
AuthVars == <<permissions, access>>
HandleVars == <<base_folder, fs, last, git, AuthVars>>
vars == <<TaskVars, HandleVars>>

\* ----------------------------------------------------------- asyncio.Lock
FreeLock == [holder |-> NoOne, waiters |-> <<>>]

\* Lock.acquire: taken at once when free and nobody waits, else queue up.
Acquire(lks, l, c) ==
    IF lks[l].holder = NoOne /\ lks[l].waiters = <<>>
    THEN [lks EXCEPT ![l].holder = c]
    ELSE [lks EXCEPT ![l].waiters = Append(@, c)]

\* Lock.release: the first waiter is woken and is the next holder.
Release(lks, l) ==
    IF lks[l].waiters = <<>>
    THEN [lks EXCEPT ![l].holder = NoOne]
    ELSE [lks EXCEPT ![l].holder = Head(lks[l].waiters),
                     ![l].waiters = Tail(@)]

\* -------------------------------------------------------------- TaskModel
\* The defaults of created_at and updated_at are evaluated once, when the
\* class body runs, not when a task is built.
TaskModel(task_id, user, description) ==
    [task_id |-> task_id, user |-> user, description |-> description,
     status |-> IN_PROGRESS, result |-> None, error |-> None,
     status_code |-> HTTP_200_OK,
     created_at |-> IMPORT_TIME, updated_at |-> IMPORT_TIME]

update_status_only(task, status, result, error, time) ==
    [task EXCEPT !.status = status, !.status_code = HTTP_200_OK,
                 !.updated_at = time]

update_status(task, status, result, error, time) ==
    [task EXCEPT !.status = status, !.result = result, !.error = error,
                 !.status_code = HTTP_200_OK, !.updated_at = time]

Put(f, k, v) == [x \in DOMAIN f \cup {k} |-> IF x = k THEN v ELSE f[x]]
Drop(f, ks) == [x \in DOMAIN f \ ks |-> f[x]]

create_task(store, task_id, user, description) ==
    Put(store, task_id, TaskModel(task_id, user, description))

set_task_result(store, task_id, status, result, error, time) ==
    IF task_id \in DOMAIN store
    THEN [store EXCEPT ![task_id] = update_status(@, status, result, error, time)]
    ELSE store

\* --------------------------------------------------------------- position
InClone == {"load", "checkout", "rebase"}
InCritical == InClone \cup {"action", "commit"}
Ended == {"done", "crashed"}

\* sync_repo_periodically(repo_id, git_handler): not spawned, between two
\* rounds, or gone
NoLoop == [pc |-> "none", lock |-> NoHandle]
SleepingLoop == [pc |-> "sleep", lock |-> NoHandle]
EndedLoop == [pc |-> "ended", lock |-> NoHandle]

TypeOK ==
    /\ now \in 0..(MaxTime + TickStep)
    /\ DOMAIN task_store \subseteq TaskIds
    /\ DOMAIN git_instances \subseteq Repos
    /\ DOMAIN git_locks \subseteq Repos
    /\ loop_busy \in TaskIds \cup {NoOne, ReloadLoop}

TaskInit(configs) ==
    /\ now = IMPORT_TIME
    /\ task_store = [t \in {} |-> None]
    /\ repos_config \in configs
    /\ config_file = [kind |-> "valid", repos |-> repos_config]
    /\ git_instances = [r \in repos_config |-> 1]
    /\ git_locks = [r \in repos_config |-> 1]
    /\ lock_gen = [r \in Repos |-> IF r \in repos_config THEN 1 ELSE 0]
    /\ locks = [l \in LockIds |-> FreeLock]
    /\ run = [t \in TaskIds |->
                [pc |-> "unborn", repo_id |-> NoOne, user |-> NoOne,
                 message |-> None, git_handler |-> NoHandle, lock |-> NoHandle,
                 action_handler |-> NoHandle, raised |-> None]]
    /\ n_created = 0
    /\ returned = [t \in TaskIds |-> [task_id |-> None, status |-> None]]
    /\ enqueued_at = [t \in TaskIds |-> 0]
    /\ loop_busy = NoOne
    /\ reload = [pc |-> "sleep", cur |-> NoOne, todo |-> {}, added |-> {},
                 synced |-> <<>>, load |-> None]
    /\ sync_loops = [l \in LockIds |->
                       IF l[1] \in repos_config /\ l[2] = 1
                       THEN SleepingLoop ELSE NoLoop]

\* ------------------------------------------------------------ enqueue_task
\* create_task, asyncio.create_task(run()), return task_store[task_id]:
\* no await in between, so run() has not started when the caller resumes.
enqueue_task_awaits_run(t, repo_id, user, message) ==
    LET known == repo_id \in DOMAIN git_locks
        l == IF known THEN <<repo_id, git_locks[repo_id]>> ELSE NoHandle
        free == known /\ locks[l].holder = NoOne /\ locks[l].waiters = <<>>
        st == create_task(task_store, t, user, message)
    IN  /\ task_store' = IF known THEN st
                         ELSE set_task_result(st, t, FAILED, None,
                                              "Repo ID not found", now)
        /\ locks' = IF known THEN Acquire(locks, l, t) ELSE locks
        /\ run' = [run EXCEPT ![t] = [@ EXCEPT
                      !.pc = IF ~known THEN "done"
                             ELSE IF free THEN "load" ELSE "wait_lock",
                      !.repo_id = repo_id, !.user = user,
                      !.message = message, !.lock = l,
                      !.git_handler = l]]
        /\ returned' = [returned EXCEPT ![t] =
                          [task_id |-> t, status |-> task_store'[t].status]]

enqueue_task(t, repo_id, user, message) ==
    /\ task_store' = create_task(task_store, t, user, message)
    /\ run' = [run EXCEPT ![t] = [@ EXCEPT !.pc = "scheduled",
                                           !.repo_id = repo_id,
                                           !.user = user,
                                           !.message = message]]
    /\ returned' = [returned EXCEPT ![t] =
                      [task_id |-> task_store'[t].task_id,
                       status |-> task_store'[t].status]]
    /\ UNCHANGED locks

\* A route calls enqueue_task for one of the callers in us.
Enqueue(us) ==
    /\ loop_busy = NoOne
    /\ n_created < MaxTasks
    /\ \E r \in Repos, u \in us, m \in Messages :
          enqueue_task(TaskName[n_created + 1], r, u, m)
    /\ n_created' = n_created + 1
    /\ enqueued_at' = [enqueued_at EXCEPT ![TaskName[n_created + 1]] = now]
    /\ UNCHANGED <<now, git_instances, git_locks, lock_gen, loop_busy,
                   config_file, repos_config, reload, sync_loops, HandleVars>>

\* -------------------------------------------------------------------- run
\* log_task_completion(task_store[task_id]) and log_task_failure(
\* task_store[task_id]) index the store: KeyError when the task is gone.
store_lookup_raises(store, t) == t \notin DOMAIN store

\* run() ends: its frame (the handler and lock it held) is gone.  raised
\* keeps the message of the exception a step of the task raised, if any.
Return(frame, msg, pc) ==
    [frame EXCEPT !.pc = pc, !.raised = msg, !.git_handler = NoHandle,
                  !.lock = NoHandle, !.action_handler = NoHandle]

ThrowKeepsLock(t, msg) ==
    LET st == set_task_result(task_store, t, FAILED, None, msg, now)
    IN  /\ locks' = locks
        /\ task_store' = st
        /\ run' = [run EXCEPT ![t] = Return(@, msg,
                                IF store_lookup_raises(st, t)
                                THEN "crashed" ELSE "done")]

\* An exception leaves the try block: the async with (when entered) releases
\* the lock, then the handler runs set_task_result and log_task_failure.
Throw(t, msg) ==
    LET st == set_task_result(task_store, t, FAILED, None, msg, now)
    IN  /\ locks' = IF run[t].pc \in InCritical
                    THEN Release(locks, run[t].lock) ELSE locks
        /\ task_store' = st
        /\ run' = [run EXCEPT ![t] = Return(@, msg,
                                IF store_lookup_raises(st, t)
                                THEN "crashed" ELSE "done")]

TaskFrame == <<now, git_instances, git_locks, lock_gen, n_created, returned,
               enqueued_at, config_file, repos_config, reload, sync_loops, HandleVars>>

\* The rename route enqueues its task.
EnqueueRename(us) ==
    /\ loop_busy = NoOne
    /\ n_created < MaxTasks
    /\ \E r \in Repos, u \in us :
          enqueue_task(TaskName[n_created + 1], r, u, RENAME_MESSAGE)
    /\ n_created' = n_created + 1
    /\ enqueued_at' = [enqueued_at EXCEPT ![TaskName[n_created + 1]] = now]
    /\ UNCHANGED <<now, git_instances, git_locks, lock_gen, loop_busy,
                   config_file, repos_config, reload, sync_loops, HandleVars>>

\* asyncio.create_task(run()) at line 63 puts the new coroutine at the end of
\* the loop's queue of ready callbacks: the runs created before t that have
\* not started yet start before t does.
CreatedBefore(t) ==
    {TaskName[i] : i \in {j \in 1..MaxTasks : \E k \in (j + 1)..MaxTasks :
                                                 TaskName[k] = t}}

\* lines 44-49: look the handler up, take the lock, enter clone_or_sync.
RunStart(t) ==
    /\ loop_busy = NoOne
    /\ run[t].pc = "scheduled"
    /\ \A earlier \in CreatedBefore(t) : run[earlier].pc # "scheduled"
    /\ LET r == run[t].repo_id IN
       IF r \notin DOMAIN git_instances
       THEN Throw(t, "Repo ID not found")
       ELSE IF r \notin DOMAIN git_locks
       THEN Throw(t, "KeyError")
       ELSE LET l == <<r, git_locks[r]>>
                free == locks[l].holder = NoOne /\ locks[l].waiters = <<>>
            IN  /\ locks' = Acquire(locks, l, t)
                /\ run' = [run EXCEPT ![t].git_handler = <<r, git_instances[r]>>,
                                      ![t].lock = l,
                                      ![t].pc = IF free THEN "load" ELSE "wait_lock"]
                /\ UNCHANGED task_store
    /\ UNCHANGED <<TaskFrame, loop_busy>>

\* The waiter woken by Lock.release resumes inside the async with.
LockGranted(t) ==
    /\ loop_busy = NoOne
    /\ run[t].pc = "wait_lock"
    /\ locks[run[t].lock].holder = t
    /\ run' = [run EXCEPT ![t].pc = "load"]
    /\ UNCHANGED <<TaskFrame, loop_busy, task_store, locks>>

\* clone_or_sync lines 36-52: Repo(...) or Repo.clone_from(...) in a thread;
\* then line 56 starts git checkout on the event loop itself.
LoadReturns(t) ==
    /\ loop_busy = NoOne
    /\ run[t].pc = "load"
    /\ \/ /\ run' = [run EXCEPT ![t].pc = "checkout"]
          /\ loop_busy' = t
          /\ UNCHANGED <<task_store, locks>>
       \/ /\ Throw(t, "Failed to clone repository")
          /\ UNCHANGED loop_busy
    /\ UNCHANGED TaskFrame

\* line 56 returns (or raises GitCommandError); _rebase starts in a thread.
CheckoutReturns(t) ==
    /\ loop_busy = t
    /\ run[t].pc = "checkout"
    /\ loop_busy' = NoOne
    /\ \/ /\ run' = [run EXCEPT ![t].pc = "rebase"]
          /\ UNCHANGED <<task_store, locks>>
       \/ Throw(t, "git checkout failed")
    /\ UNCHANGED TaskFrame

\* _rebase returns; line 51 calls the route's lambda, which looks the
\* handler up again (get_git_handler(repo_id).<operation>(...)).
RebaseReturns(t) ==
    /\ loop_busy = NoOne
    /\ run[t].pc = "rebase"
    /\ \/ LET r == run[t].repo_id IN
          IF r \notin DOMAIN git_instances
          THEN Throw(t, "Repo ID not found")
          ELSE IF run[t].message = RENAME_MESSAGE
          THEN Throw(t, NAME_ERROR)
          ELSE /\ run' = [run EXCEPT ![t].pc = "action",
                                     ![t].action_handler = <<r, git_instances[r]>>]
               /\ UNCHANGED <<task_store, locks>>
       \/ Throw(t, "Git rebase failed.")
    /\ UNCHANGED <<TaskFrame, loop_busy>>

AfterActionMarksCompleted(t) ==
    /\ run' = [run EXCEPT ![t].pc = "commit"]
    /\ task_store' = set_task_result(task_store, t, COMPLETED,
                                     run[t].message, None, now)
    /\ UNCHANGED locks

\* line 51 returns; line 53 enters commit_and_push.
AfterAction(t) ==
    /\ run' = [run EXCEPT ![t].pc = "commit"]
    /\ UNCHANGED <<task_store, locks>>

ActionReturns(t) ==
    /\ loop_busy = NoOne
    /\ run[t].pc = "action"
    /\ \/ AfterAction(t)
       \/ Throw(t, "action failed")
    /\ UNCHANGED <<TaskFrame, loop_busy>>

\* lines 53-57: commit_and_push returns, the async with releases the lock,
\* set_task_result(COMPLETED), log_task_completion(task_store[task_id]); a
\* KeyError there is handled at lines 59-61 like any other exception.
CommitReturns(t) ==
    /\ loop_busy = NoOne
    /\ run[t].pc = "commit"
    /\ \/ LET st == set_task_result(task_store, t, COMPLETED,
                                    run[t].message, None, now)
              st2 == set_task_result(st, t, FAILED, None, "KeyError", now)
          IN  /\ locks' = Release(locks, run[t].lock)
              /\ IF store_lookup_raises(st, t)
                 THEN /\ task_store' = st2
                      /\ run' = [run EXCEPT ![t] = Return(@, None,
                                   IF store_lookup_raises(st2, t)
                                   THEN "crashed" ELSE "done")]
                 ELSE /\ task_store' = st
                      /\ run' = [run EXCEPT ![t] = Return(@, None, "done")]
       \/ Throw(t, "Git commit failed.")
    /\ UNCHANGED <<TaskFrame, loop_busy>>

\* ------------------------------------------------ task_manager_cleanup_loop
expired_when_ended(store, time) ==
    {t \in DOMAIN store : /\ (time - store[t].updated_at) > TASK_EXPIRATION
                          /\ store[t].status # IN_PROGRESS}

expired(store, time) ==
    {t \in DOMAIN store : (time - store[t].updated_at) > TASK_EXPIRATION}

CleanupSweep ==
    /\ loop_busy = NoOne
    /\ task_store' = Drop(task_store, expired(task_store, now))
    /\ UNCHANGED <<now, git_instances, git_locks, locks, lock_gen, run,
                   n_created, returned, enqueued_at, loop_busy, config_file,
                   repos_config, reload, sync_loops, HandleVars>>

\* get_task_status: the route's answer for task_id asked by user.
get_task_status(store, task_id, user) ==
    IF task_id \notin DOMAIN store THEN "TaskNotFound"
    ELSE IF store[task_id].user # user THEN "UnauthorizedError"
    ELSE store[task_id].status

\* list_tasks: the tasks of the store, in the order they were put in it,
\* that were requested by user.
list_tasks(store, user) ==
    LET mine == SelectSeq(TaskName,
                          LAMBDA t : t \in DOMAIN store /\ store[t].user = user)
    IN  [i \in 1..Len(mine) |-> store[mine[i]]]

\* ------------------------------------------- reload_repo_config_periodically
\* load_config: ConfigError for a file that is missing or does not fit the
\* schema, json.load's JSONDecodeError for one that does not parse.
load_config(file) ==
    IF file.kind = "valid" THEN [raised |-> None, repos |-> file.repos]
    ELSE IF file.kind = "unparsable"
    THEN [raised |-> "JSONDecodeError", repos |-> {}]
    ELSE [raised |-> "ConfigError", repos |-> {}]

reposFile_reload_empties(file, old) ==
    IF load_config(file).raised = None THEN load_config(file).repos ELSE {}

\* ReposFile.reload: ConfigError and every other Exception are logged, and
\* repos stays as it was.
reposFile_reload(file, old) ==
    IF load_config(file).raised = None THEN load_config(file).repos ELSE old

StartAddHandlerOnly(r, gi, gl, lks, added, synced, load) ==
    LET g == lock_gen[r] + 1 IN
    /\ lock_gen' = [lock_gen EXCEPT ![r] = g]
    /\ git_instances' = Put(gi, r, g)
    /\ git_locks' = gl
    /\ locks' = Acquire(lks, <<r, g>>, ReloadLoop)
    /\ reload' = [pc |-> "load", cur |-> r,
                  todo |-> added \ ({synced[i] : i \in DOMAIN synced} \cup {r}),
                  added |-> added, synced |-> synced, load |-> load]

\* lines 66-77: build the handler and its lock, take the lock, clone_or_sync.
StartAdd(r, gi, gl, lks, added, synced, load) ==
    LET g == lock_gen[r] + 1 IN
    /\ lock_gen' = [lock_gen EXCEPT ![r] = g]
    /\ git_instances' = Put(gi, r, g)
    /\ git_locks' = Put(gl, r, g)
    /\ locks' = Acquire(lks, <<r, g>>, ReloadLoop)
    /\ reload' = [pc |-> "load", cur |-> r,
                  todo |-> added \ ({synced[i] : i \in DOMAIN synced} \cup {r}),
                  added |-> added, synced |-> synced, load |-> load]

\* lines 47-58: the sleep ends, reposFile.reload(), the identifiers that left
\* the configuration are deleted, then the first new one is added.
ReloadWake ==
    /\ loop_busy = NoOne
    /\ reload.pc = "sleep"
    /\ LET new == reposFile_reload(config_file, repos_config)
           removed == DOMAIN git_instances \ new
           added == new \ DOMAIN git_instances
           gi == Drop(git_instances, removed)
           gl == Drop(git_locks, removed)
           load == load_config(config_file).raised
       IN  /\ \A r \in added : lock_gen[r] < MaxGen
           /\ repos_config' = new
           /\ IF added = {}
              THEN /\ git_instances' = gi
                   /\ git_locks' = gl
                   /\ reload' = [reload EXCEPT !.load = load]
                   /\ UNCHANGED <<locks, lock_gen>>
              ELSE \E r \in added : StartAdd(r, gi, gl, locks, added, <<>>, load)
    /\ UNCHANGED <<now, task_store, run, n_created, returned, enqueued_at,
                   loop_busy, config_file, sync_loops, HandleVars>>

ReloadFrame == <<now, task_store, run, n_created, returned, enqueued_at,
                 config_file, repos_config, HandleVars>>

\* The exception of a failed clone_or_sync leaves the while loop.
ReloadDies ==
    /\ locks' = Release(locks, <<reload.cur, git_locks[reload.cur]>>)
    /\ reload' = [pc |-> "dead", cur |-> NoOne, todo |-> {}, added |-> {},
                  synced |-> <<>>, load |-> reload.load]
    /\ UNCHANGED <<git_instances, git_locks, lock_gen, sync_loops>>

ReloadLoadReturns ==
    /\ loop_busy = NoOne
    /\ reload.pc = "load"
    /\ \/ /\ reload' = [reload EXCEPT !.pc = "checkout"]
          /\ loop_busy' = ReloadLoop
          /\ UNCHANGED <<git_instances, git_locks, locks, lock_gen,
                         sync_loops>>
       \/ /\ ReloadDies
          /\ UNCHANGED loop_busy
    /\ UNCHANGED ReloadFrame

ReloadCheckoutReturns ==
    /\ loop_busy = ReloadLoop
    /\ reload.pc = "checkout"
    /\ loop_busy' = NoOne
    /\ \/ /\ reload' = [reload EXCEPT !.pc = "rebase"]
          /\ UNCHANGED <<git_instances, git_locks, locks, lock_gen,
                         sync_loops>>
       \/ ReloadDies
    /\ UNCHANGED ReloadFrame

\* lines 76-79: the lock is released, the periodic sync of the new
\* repository is spawned, and the for loop goes on to the next new id.
ReloadRebaseReturns ==
    /\ loop_busy = NoOne
    /\ reload.pc = "rebase"
    /\ \/ LET lk == Release(locks, <<reload.cur, git_locks[reload.cur]>>)
              synced == Append(reload.synced, reload.cur)
          IN  /\ sync_loops' =
                     [sync_loops EXCEPT
                         ![<<reload.cur, git_instances[reload.cur]>>] =
                             SleepingLoop]
              /\ IF reload.todo = {}
                 THEN /\ locks' = lk
                      /\ reload' = [pc |-> "sleep", cur |-> NoOne, todo |-> {},
                                    added |-> {}, synced |-> <<>>,
                                    load |-> reload.load]
                      /\ UNCHANGED <<git_instances, git_locks, lock_gen>>
                 ELSE \E r \in reload.todo :
                          StartAdd(r, git_instances, git_locks, lk,
                                   reload.added, synced, reload.load)
       \/ ReloadDies
    /\ UNCHANGED <<ReloadFrame, loop_busy>>

\* ------------------------------------------------- sync_repo_periodically
SyncFrame == <<now, task_store, git_instances, git_locks, lock_gen, run,
               n_created, returned, enqueued_at, loop_busy, config_file,
               repos_config, reload, HandleVars>>

\* The loop of handler l wakes from its sleep: with its identifier gone from
\* the registry it ends, else it takes the identifier's lock for a pull.
SyncWake(l) ==
    /\ loop_busy = NoOne
    /\ sync_loops[l].pc = "sleep"
    /\ IF l[1] \notin DOMAIN git_locks
       THEN /\ sync_loops' = [sync_loops EXCEPT ![l] = EndedLoop]
            /\ UNCHANGED locks
       ELSE LET lk == <<l[1], git_locks[l[1]]>>
                free == locks[lk].holder = NoOne /\ locks[lk].waiters = <<>>
            IN  /\ locks' = Acquire(locks, lk, SyncName[l[1]][l[2]])
                /\ sync_loops' = [sync_loops EXCEPT ![l] =
                                    [pc |-> IF free THEN "pull" ELSE "wait_lock",
                                     lock |-> lk]]
    /\ UNCHANGED SyncFrame

SyncLockGranted(l) ==
    /\ loop_busy = NoOne
    /\ sync_loops[l].pc = "wait_lock"
    /\ locks[sync_loops[l].lock].holder = SyncName[l[1]][l[2]]
    /\ sync_loops' = [sync_loops EXCEPT ![l].pc = "pull"]
    /\ UNCHANGED <<SyncFrame, locks>>

\* pull() returns or raises; a failure is logged and swallowed, the lock is
\* released and the loop sleeps again.
SyncPullReturns(l) ==
    /\ loop_busy = NoOne
    /\ sync_loops[l].pc = "pull"
    /\ locks' = Release(locks, sync_loops[l].lock)
    /\ sync_loops' = [sync_loops EXCEPT ![l] = SleepingLoop]
    /\ UNCHANGED SyncFrame

SyncStep ==
    \/ \E l \in LockIds : SyncWake(l)
    \/ \E l \in LockIds : SyncLockGranted(l)
    \/ \E l \in LockIds : SyncPullReturns(l)

\* ------------------------------------------------------------ environment
\* Somebody edits the repositories file.
ConfigFiles ==
    {[kind |-> "valid", repos |-> c] : c \in SUBSET Repos}
        \cup {[kind |-> k, repos |-> {}] :
                 k \in {"missing", "unparsable", "invalid"}}

EditConfigTo(files) ==
    /\ \E f \in files : f # config_file /\ config_file' = f
    /\ UNCHANGED <<now, task_store, git_instances, git_locks, locks, lock_gen,
                   run, n_created, returned, enqueued_at, loop_busy,
                   repos_config, reload, sync_loops, HandleVars>>

EditConfig == EditConfigTo(ConfigFiles)

\* Minutes pass only while no coroutine is ready to run on a free loop: a
\* run() that was just scheduled, or just handed its lock, runs at once.
Ready(t) ==
    \/ run[t].pc = "scheduled"
    \/ run[t].pc = "wait_lock" /\ locks[run[t].lock].holder = t

Tick ==
    /\ loop_busy # NoOne \/ \A t \in TaskIds : ~Ready(t)
    /\ now + TickStep <= MaxTime
    /\ now' = now + TickStep
    /\ UNCHANGED <<task_store, git_instances, git_locks, locks, lock_gen, run,
                   n_created, returned, enqueued_at, loop_busy, config_file,
                   repos_config, reload, sync_loops, HandleVars>>

TaskStep ==
    \/ \E t \in TaskIds : RunStart(t)
    \/ \E t \in TaskIds : LockGranted(t)
    \/ \E t \in TaskIds : LoadReturns(t)
    \/ \E t \in TaskIds : CheckoutReturns(t)
    \/ \E t \in TaskIds : RebaseReturns(t)
    \/ \E t \in TaskIds : ActionReturns(t)
    \/ \E t \in TaskIds : CommitReturns(t)

\* ---------------------------------------------------------------- strings
\* A Python str is the sequence of its characters.
RECURSIVE split(_, _)
\* str.split(sep) for a one-character sep
split(s, sep) ==
    IF \A i \in 1..Len(s) : s[i] # sep THEN <<s>>
    ELSE LET i == CHOOSE k \in 1..Len(s) :
                      s[k] = sep /\ \A j \in 1..(k - 1) : s[j] # sep
         IN  <<SubSeq(s, 1, i - 1)>> \o split(SubSeq(s, i + 1, Len(s)), sep)

RECURSIVE join(_, _)
\* sep.join(parts)
join(sep, parts) ==
    IF parts = <<>> THEN <<>>
    ELSE IF Len(parts) = 1 THEN parts[1]
    ELSE parts[1] \o sep \o join(sep, Tail(parts))

startswith(s, prefix) ==
    Len(prefix) <= Len(s) /\ SubSeq(s, 1, Len(prefix)) = prefix

endswith(s, suffix) ==
    Len(suffix) <= Len(s)
    /\ SubSeq(s, Len(s) - Len(suffix) + 1, Len(s)) = suffix

\* s.find(sub) != -1
found(s, sub) ==
    \E i \in 1..(Len(s) - Len(sub) + 1) : SubSeq(s, i, i + Len(sub) - 1) = sub

removesuffix(s, suffix) ==
    IF suffix # <<>> /\ endswith(s, suffix)
    THEN SubSeq(s, 1, Len(s) - Len(suffix)) ELSE s

\* the index of the last "/" of s, 0 when it has none (s.rfind("/") + 1)
rfind_slash(s) ==
    IF \A i \in 1..Len(s) : s[i] # "/" THEN 0
    ELSE CHOOSE k \in 1..Len(s) :
             s[k] = "/" /\ \A j \in (k + 1)..Len(s) : s[j] # "/"

RECURSIVE rstrip_slash(_)
rstrip_slash(s) ==
    IF s # <<>> /\ s[Len(s)] = "/"
    THEN rstrip_slash(SubSeq(s, 1, Len(s) - 1)) ELSE s

\* ---------------------------------------------------------------- os.path
\* posixpath.join(a, b)
path_join2(a, b) ==
    IF startswith(b, <<"/">>) THEN b
    ELSE IF a = <<>> \/ endswith(a, <<"/">>) THEN a \o b
    ELSE a \o <<"/">> \o b

path_join3(a, b, c) == path_join2(path_join2(a, b), c)

RECURSIVE norm_comps(_, _, _)
\* the loop of posixpath.normpath over the components still to read
norm_comps(comps, new_comps, initial_slashes) ==
    IF comps = <<>> THEN new_comps
    ELSE LET comp == Head(comps)
             n == Len(new_comps)
         IN  IF comp = <<>> \/ comp = <<".">>
             THEN norm_comps(Tail(comps), new_comps, initial_slashes)
             ELSE IF comp # <<".", ".">>
                     \/ (initial_slashes = 0 /\ n = 0)
                     \/ (n > 0 /\ new_comps[n] = <<".", ".">>)
             THEN norm_comps(Tail(comps), Append(new_comps, comp),
                             initial_slashes)
             ELSE IF n > 0
             THEN norm_comps(Tail(comps), SubSeq(new_comps, 1, n - 1),
                             initial_slashes)
             ELSE norm_comps(Tail(comps), new_comps, initial_slashes)

\* "path or dot"
or_dot(path) == IF path = <<>> THEN <<".">> ELSE path

slashes(n) == IF n = 2 THEN <<"/", "/">> ELSE IF n = 1 THEN <<"/">> ELSE <<>>

normpath_from(path, initial_slashes) ==
    or_dot(slashes(initial_slashes)
           \o join(<<"/">>, norm_comps(split(path, "/"), <<>>,
                                       initial_slashes)))

\* posixpath.normpath
normpath(path) ==
    IF path = <<>> THEN <<".">>
    ELSE normpath_from(path,
             IF ~startswith(path, <<"/">>) THEN 0
             ELSE IF startswith(path, <<"/", "/">>)
                     /\ ~startswith(path, <<"/", "/", "/">>)
             THEN 2 ELSE 1)

\* the working directory of the server process
cwd == <<"/">>

\* posixpath.abspath
abspath(path) ==
    normpath(IF startswith(path, <<"/">>) THEN path
             ELSE path_join2(cwd, path))

\* posixpath.dirname
dirname(p) ==
    LET head == SubSeq(p, 1, rfind_slash(p))
    IN  IF head # <<>> /\ \E i \in 1..Len(head) : head[i] # "/"
        THEN rstrip_slash(head) ELSE head

\* posixpath.basename
basename(p) == SubSeq(p, rfind_slash(p) + 1, Len(p))

\* ------------------------------------------------------------ file system
\* fs maps every existing absolute, normalized path to its node.
Dir == [kind |-> "dir", content |-> <<>>]
File(content) == [kind |-> "file", content |-> content]

exists(f, p) == p \in DOMAIN f
isdir(f, p) == p \in DOMAIN f /\ f[p].kind = "dir"
isfile(f, p) == p \in DOMAIN f /\ f[p].kind = "file"

Below(p, q) == q # p /\ startswith(q, IF p = <<"/">> THEN p ELSE p \o <<"/">>)
Children(f, p) == {q \in DOMAIN f : q # <<"/">> /\ dirname(q) = p}

\* os.listdir: the names in directory p
listdir(f, p) == {basename(q) : q \in Children(f, p)}

\* p and the directories above it, below the root
RECURSIVE Ancestors(_)
Ancestors(p) ==
    IF p = <<"/">> \/ p = <<>> THEN {} ELSE {p} \cup Ancestors(dirname(p))

OK == "ok"
Sys(f, err) == [fs |-> f, err |-> err]

\* os.makedirs(p, exist_ok=True)
makedirs(f, p) ==
    IF isfile(f, p) THEN Sys(f, "FileExistsError")
    ELSE IF \E a \in Ancestors(p) : isfile(f, a)
    THEN Sys(f, "NotADirectoryError")
    ELSE Sys([x \in DOMAIN f \cup Ancestors(p) |->
                 IF x \in DOMAIN f THEN f[x] ELSE Dir], OK)

\* os.rmdir(p), p a directory
rmdir(f, p) ==
    IF Children(f, p) # {} THEN Sys(f, "OSError")
    ELSE Sys([x \in DOMAIN f \ {p} |-> f[x]], OK)

\* os.remove(p), p a file
remove(f, p) == Sys([x \in DOMAIN f \ {p} |-> f[x]], OK)

\* open(p, "w").write(content)
open_write(f, p, content) ==
    IF isdir(f, p) THEN Sys(f, "IsADirectoryError")
    ELSE IF ~exists(f, dirname(p)) THEN Sys(f, "FileNotFoundError")
    ELSE IF isfile(f, dirname(p)) THEN Sys(f, "NotADirectoryError")
    ELSE Sys([x \in DOMAIN f \cup {p} |->
                 IF x = p THEN File(content) ELSE f[x]], OK)

\* os.rename(old, new), old existing
rename(f, old, new) ==
    LET moved == {q \in DOMAIN f : q = old \/ Below(old, q)}
        gone == {q \in DOMAIN f : q = new \/ Below(new, q)}
        to(q) == new \o SubSeq(q, Len(old) + 1, Len(q))
        kept == DOMAIN f \ (moved \cup gone)
        target == {to(q) : q \in moved}
    IN  IF old = new THEN Sys(f, OK)
        ELSE IF ~isdir(f, dirname(new))
        THEN Sys(f, IF exists(f, dirname(new))
                    THEN "NotADirectoryError" ELSE "FileNotFoundError")
        ELSE IF isdir(f, old) /\ Below(old, new) THEN Sys(f, "OSError")
        ELSE IF isdir(f, old) /\ isfile(f, new)
        THEN Sys(f, "NotADirectoryError")
        ELSE IF isfile(f, old) /\ isdir(f, new)
        THEN Sys(f, "IsADirectoryError")
        ELSE IF isdir(f, new) /\ Children(f, new) # {} THEN Sys(f, "OSError")
        ELSE Sys([x \in kept \cup target |->
                     IF x \in target
                     THEN f[CHOOSE q \in moved : to(q) = x] ELSE f[x]], OK)

\* ---------------------------------------------------------------- AsyncGit
local_path == <<"/", "r">>
DOT_GIT == <<".", "g", "i", "t">>
GITKEEP == <<".", "g", "i", "t", "k", "e", "e", "p">>

\* AsyncGit.allowed_path
allowed_path == path_join2(local_path, base_folder)

NoOut == [text |-> <<>>, names |-> {}, flag |-> FALSE, tree |-> <<>>]

\* How a call on the handle ends: the file system it leaves, "ok" or the
\* exception raised, the value returned, and whether any file system call
\* (a read or a change) was made.
Ret(f, res, out, touched) ==
    [fs |-> f, res |-> res, out |-> out, touched |-> touched]
Done(f) == Ret(f, OK, NoOut, TRUE)
Raise(f, err, touched) == Ret(f, err, NoOut, touched)

\* Let(value, LAMBDA x : e) is e with x standing for the value.
Let(value, In(_)) == In(value)

\* A method that went past its path check made file system calls.
Touched(r) == Ret(r.fs, r.res, NoOut, TRUE)

\* the two tests of _ensure_within_repo with the test for ".git/" left out
within_repo_endswith_only(repo_root, abs_path) ==
    startswith(abs_path, repo_root) /\ ~endswith(abs_path, DOT_GIT)

\* the two tests of _ensure_within_repo: FALSE when one of them raises
within_repo(repo_root, abs_path) ==
    /\ startswith(abs_path, repo_root)
    /\ ~(endswith(abs_path, DOT_GIT) \/ found(abs_path, DOT_GIT \o <<"/">>))

\* _ensure_within_repo: TRUE when it returns, FALSE when it raises
\* PathAccessDenied.
_ensure_within_repo(abs_path) ==
    within_repo(abspath(path_join2(local_path, base_folder)),
                abspath(abs_path))

\* _abs_path: the absolute path, and whether the check let it through.
_abs_path(relative_path) ==
    Let(abspath(path_join3(local_path, base_folder, relative_path)),
        LAMBDA a : [ok |-> _ensure_within_repo(a), path |-> a])

list_all(f, relative_path) ==
    Let(_abs_path(relative_path), LAMBDA full :
    IF ~full.ok THEN Raise(f, "PathAccessDenied", FALSE)
    ELSE IF ~exists(f, full.path) THEN Raise(f, "InvalidPathError", TRUE)
    ELSE IF isfile(f, full.path) THEN Raise(f, "NotADirectoryError", TRUE)
    ELSE Ret(f, OK, [NoOut EXCEPT !.names = listdir(f, full.path)], TRUE))

\* _write_text checks its (absolute) argument once more, then writes.
_write_text(f, path, content) ==
    Let(_abs_path(path), LAMBDA checked :
    IF ~checked.ok THEN Sys(f, "PathAccessDenied")
    ELSE open_write(f, checked.path, content))

RECURSIVE manage_git_keep(_, _)
RECURSIVE write_file(_, _, _)
RECURSIVE delete_file(_, _)

manage_git_keep(f, relative_path) ==
    Let(list_all(f, relative_path), LAMBDA contents :
    IF contents.res # OK
    THEN Raise(f, contents.res, contents.touched)
    ELSE IF Cardinality(contents.out.names) = 0
    THEN Touched(write_file(f, path_join2(relative_path, GITKEEP), <<>>))
    ELSE IF Cardinality(contents.out.names) > 1
            /\ GITKEEP \in contents.out.names
    THEN Touched(delete_file(f, path_join2(relative_path, GITKEEP)))
    ELSE Done(f))

write_file(f, relative_path, content) ==
    Let(_abs_path(relative_path), LAMBDA full :
    IF ~full.ok THEN Raise(f, "PathAccessDenied", FALSE) ELSE
    Let(makedirs(f, dirname(full.path)), LAMBDA m :
    IF m.err # OK THEN Raise(m.fs, m.err, TRUE) ELSE
    Let(_write_text(m.fs, full.path, content), LAMBDA w :
    IF w.err # OK THEN Raise(w.fs, w.err, TRUE)
    ELSE Touched(manage_git_keep(w.fs, dirname(relative_path))))))

delete_file(f, relative_path) ==
    Let(_abs_path(relative_path), LAMBDA full :
    IF ~full.ok THEN Raise(f, "PathAccessDenied", FALSE)
    ELSE IF isfile(f, full.path)
    THEN Touched(manage_git_keep(remove(f, full.path).fs,
                                 dirname(relative_path)))
    ELSE Raise(f, "FolderNotFound", TRUE))

make_folder(f, relative_path) ==
    Let(_abs_path(relative_path), LAMBDA full :
    IF ~full.ok THEN Raise(f, "PathAccessDenied", FALSE) ELSE
    Let(makedirs(f, full.path), LAMBDA m :
    IF m.err # OK THEN Raise(m.fs, m.err, TRUE)
    ELSE Touched(manage_git_keep(m.fs, relative_path))))

delete_folder(f, relative_path) ==
    Let(_abs_path(relative_path), LAMBDA full :
    IF ~full.ok THEN Raise(f, "PathAccessDenied", FALSE)
    ELSE IF ~isdir(f, full.path) THEN Raise(f, "FolderNotFound", TRUE)
    ELSE IF removesuffix(full.path, <<"/">>)
              = removesuffix(allowed_path, <<"/">>)
    THEN Raise(f, "PathAccessDenied", TRUE) ELSE
    Let(rmdir(f, full.path), LAMBDA r :
    IF r.err # OK THEN Raise(r.fs, r.err, TRUE)
    ELSE Touched(manage_git_keep(r.fs, dirname(relative_path)))))

\* _read_text checks its (absolute) argument once more, then reads.
_read_text(f, path) ==
    Let(_abs_path(path), LAMBDA checked :
    IF ~checked.ok THEN Raise(f, "PathAccessDenied", TRUE)
    ELSE Ret(f, OK, [NoOut EXCEPT !.text = f[checked.path].content], TRUE))

read_file(f, relative_path) ==
    Let(_abs_path(relative_path), LAMBDA full :
    IF ~full.ok THEN Raise(f, "PathAccessDenied", FALSE)
    ELSE IF ~isfile(f, full.path) THEN Raise(f, "FolderNotFound", TRUE)
    ELSE _read_text(f, full.path))

rename_path(f, old_relative_path, new_relative_path) ==
    Let(_abs_path(old_relative_path), LAMBDA old :
    IF ~old.ok THEN Raise(f, "PathAccessDenied", FALSE) ELSE
    Let(_abs_path(new_relative_path), LAMBDA new :
    IF ~new.ok THEN Raise(f, "PathAccessDenied", FALSE)
    ELSE IF ~exists(f, old.path) THEN Raise(f, "InvalidPathError", TRUE) ELSE
    Let(makedirs(f, dirname(new.path)), LAMBDA m :
    IF m.err # OK THEN Raise(m.fs, m.err, TRUE) ELSE
    Let(rename(m.fs, old.path, new.path), LAMBDA r :
    IF r.err # OK THEN Raise(r.fs, r.err, TRUE) ELSE
    Let(manage_git_keep(r.fs, dirname(old_relative_path)), LAMBDA k :
    IF k.res # OK THEN Touched(k)
    ELSE Touched(manage_git_keep(k.fs, dirname(new_relative_path))))))))

list_files_only(f, relative_path) ==
    Let(_abs_path(relative_path), LAMBDA full :
    IF ~full.ok THEN Raise(f, "PathAccessDenied", FALSE)
    ELSE IF ~exists(f, full.path) THEN Raise(f, "InvalidPathError", TRUE)
    ELSE IF isfile(f, full.path) THEN Raise(f, "NotADirectoryError", TRUE)
    ELSE Ret(f, OK, [NoOut EXCEPT !.names =
                        {basename(q) : q \in {c \in Children(f, full.path) :
                                                 isfile(f, c)}}], TRUE))

list_folders_only(f, relative_path) ==
    Let(_abs_path(relative_path), LAMBDA full :
    IF ~full.ok THEN Raise(f, "PathAccessDenied", FALSE)
    ELSE IF ~exists(f, full.path) THEN Raise(f, "InvalidPathError", TRUE)
    ELSE IF isfile(f, full.path) THEN Raise(f, "NotADirectoryError", TRUE)
    ELSE Ret(f, OK, [NoOut EXCEPT !.names =
                        {basename(q) : q \in {c \in Children(f, full.path) :
                                                 isdir(f, c)}}], TRUE))

does_path_exist(f, relative_path) ==
    Let(_abs_path(relative_path), LAMBDA full :
    IF ~full.ok THEN Raise(f, "PathAccessDenied", FALSE)
    ELSE Ret(f, OK, [NoOut EXCEPT !.flag = exists(f, full.path)], TRUE))

RECURSIVE build_tree_with_git(_, _)
build_tree_with_git(f, path) ==
    [name |-> basename(path), type |-> "folder",
     children |-> {IF isdir(f, c) THEN build_tree_with_git(f, c)
                   ELSE [name |-> basename(c), type |-> "file"] :
                   c \in Children(f, path)}]

RECURSIVE build_tree(_, _)
\* get_tree.build_tree: os.scandir(path), skipping entries named .git
build_tree(f, path) ==
    [name |-> basename(path), type |-> "folder",
     children |-> {IF isdir(f, c) THEN build_tree(f, c)
                   ELSE [name |-> basename(c), type |-> "file"] :
                   c \in {q \in Children(f, path) : basename(q) # DOT_GIT}}]

get_tree(f, relative_path) ==
    Let(_abs_path(relative_path), LAMBDA full :
    IF ~full.ok THEN Raise(f, "PathAccessDenied", FALSE)
    ELSE IF ~exists(f, full.path) THEN Raise(f, "FolderNotFound", TRUE)
    ELSE IF isfile(f, full.path) THEN Raise(f, "NotADirectoryError", TRUE)
    ELSE Ret(f, OK, [NoOut EXCEPT !.tree = <<build_tree(f, full.path)>>],
             TRUE))

\* -------------------------------------------------------------------- git
\* Commits are named in the order they are made; a branch is the sequence of
\* its commits, oldest first.
CommitName == <<"c1", "c2", "c3", "c4", "c5", "c6">>
Range(seq) == {seq[i] : i \in DOMAIN seq}
IsPrefix(a, b) == Len(a) <= Len(b) /\ SubSeq(b, 1, Len(a)) = a

\* The clone right after Repo.clone_from: on main, level with the remote.
\* branch is the branch checked out in the working copy, self_branch the
\* handle's attribute self.branch; other is the local branch b (empty while
\* the branch does not exist) and upstream tells that b is on the remote.
\* fault, message, staged, committed, pushes, created and rebases describe
\* the latest git method called on the handle.
FreshClone ==
    [remote |-> <<"c1">>, origin |-> <<"c1">>, main |-> <<"c1">>,
     branch |-> "main", dirty |-> FALSE, untracked |-> FALSE, n |-> 1,
     fault |-> "none", message |-> <<>>, staged |-> FALSE,
     committed |-> FALSE, pushes |-> 0,
     self_branch |-> "main", other |-> <<>>, upstream |-> FALSE,
     created |-> FALSE, rebases |-> 0]

\* The commits of the branch that is checked out.
Tip(g) == IF g.branch = "main" THEN g.main ELSE g.other
WithTip(g, commits) ==
    IF g.branch = "main" THEN [g EXCEPT !.main = commits]
    ELSE [g EXCEPT !.other = commits]

GitRet(g, res) == [git |-> g, res |-> res]

\* git rebase origin/main: the commits of the checked-out branch that
\* origin/main does not have are replayed on top of origin/main.
git_rebase(g) ==
    WithTip(g, g.origin \o SelectSeq(Tip(g),
                                      LAMBDA c : c \notin Range(g.origin)))

\* _rebase: reset --hard origin/main, clean -xdf, fetch, rebase origin/main;
\* fault names the git command that fails, if any.
_rebase(g, fault) ==
    IF fault = "reset" THEN GitRet(g, "GitRebaseError") ELSE
    Let([WithTip(g, g.origin) EXCEPT !.dirty = FALSE], LAMBDA g1 :
    IF fault = "clean" THEN GitRet(g1, "GitRebaseError") ELSE
    Let([g1 EXCEPT !.untracked = FALSE], LAMBDA g2 :
    IF fault = "fetch_unreachable" THEN GitRet(g2, "GitConnectionError")
    ELSE IF fault = "fetch" THEN GitRet(g2, "GitRebaseError") ELSE
    Let([g2 EXCEPT !.origin = g2.remote], LAMBDA g3 :
    IF fault = "rebase" THEN GitRet(g3, "GitRebaseError")
    ELSE GitRet([git_rebase(g3) EXCEPT !.rebases = @ + 1], OK))))

\* clone_or_sync on a clone that exists: load it, checkout main_branch,
\* _rebase.
clone_or_sync(g, fault) ==
    Let([g EXCEPT !.fault = fault, !.message = <<>>, !.created = FALSE,
                  !.rebases = 0, !.pushes = 0], LAMBDA g0 :
    IF fault = "load" THEN GitRet(g0, "GitError")
    ELSE IF fault = "checkout" THEN GitRet(g0, "GitCommandError")
    ELSE _rebase([g0 EXCEPT !.branch = "main"], fault))

checkout_always(g, branch, fault) ==
    _rebase([g EXCEPT !.fault = fault, !.message = <<>>, !.created = FALSE,
                      !.rebases = 0, !.pushes = 0, !.branch = branch,
                      !.self_branch = branch], fault)

\* checkout(branch): nothing when branch is self.branch; else load, git
\* checkout (-b and push -u origin for a branch that is not in
\* repo.branches), self.branch = branch, _rebase.  A GitCommandError of the
\* checkout or the push is raised as GitError.
checkout(g, branch, fault) ==
    IF branch = g.self_branch THEN GitRet(g, OK) ELSE
    Let([g EXCEPT !.fault = fault, !.message = <<>>, !.created = FALSE,
                  !.rebases = 0, !.pushes = 0], LAMBDA g0 :
    IF fault = "load" THEN GitRet(g0, "GitError")
    ELSE IF fault = "checkout" THEN GitRet(g0, "GitError")
    ELSE IF branch # "main" /\ g0.other = <<>>
    THEN Let([g0 EXCEPT !.other = Tip(g0), !.branch = branch,
                        !.created = TRUE], LAMBDA g1 :
         IF fault = "push" THEN GitRet(g1, "GitError")
         ELSE _rebase([g1 EXCEPT !.upstream = TRUE, !.pushes = 1,
                                 !.self_branch = branch], fault))
    ELSE _rebase([g0 EXCEPT !.branch = branch, !.self_branch = branch],
                 fault))

NOTHING_TO_COMMIT ==
    <<"n", "o", "t", "h", "i", "n", "g", " ", "t", "o", " ",
      "c", "o", "m", "m", "i", "t">>

\* str(e) of the GitCommandError of a failed git commit: the command line,
\* which carries the commit message, then what git printed.
str_e(message, staged) ==
    <<"g", "i", "t", " ", "c", "o", "m", "m", "i", "t", " ", "-", "m", " ">>
        \o message \o <<" ">>
        \o (IF staged THEN <<"e", "r", "r", "o", "r">>
            ELSE NOTHING_TO_COMMIT)

\* commit_and_push: load, add --all, commit, push; a commit that fails with
\* "nothing to commit" in str(e) returns, every other GitCommandError is
\* raised as GitCommitError.
commit_and_push(g, message, fault) ==
    Let([g EXCEPT !.fault = fault, !.message = message,
                  !.staged = g.dirty \/ g.untracked,
                  !.committed = FALSE, !.pushes = 0, !.created = FALSE,
                  !.rebases = 0], LAMBDA g0 :
    IF fault = "load" THEN GitRet(g0, "GitError")
    ELSE IF fault = "add" THEN GitRet(g0, "GitCommitError")
    ELSE IF fault = "commit" \/ ~g0.staged
    THEN IF found(str_e(message, g0.staged), NOTHING_TO_COMMIT)
         THEN GitRet(g0, OK)
         ELSE GitRet(g0, "GitCommitError")
    ELSE
    Let([WithTip(g0, Append(Tip(g0), CommitName[g0.n + 1])) EXCEPT
                   !.n = @ + 1, !.dirty = FALSE, !.untracked = FALSE,
                   !.committed = TRUE, !.pushes = 1], LAMBDA g1 :
    IF fault = "push" THEN GitRet(g1, "GitCommitError")
    ELSE IF g1.branch = "main" /\ ~IsPrefix(g1.remote, g1.main)
    THEN GitRet([g1 EXCEPT !.fault = "push"], "GitCommitError")
    ELSE IF g1.branch = "main"
    THEN GitRet([g1 EXCEPT !.remote = g1.main, !.origin = g1.main], OK)
    ELSE GitRet(g1, OK)))

\* ------------------------------------------------- calls on one AsyncGit
\* The working tree right after the clone: the repository at /r with its
\* .git directory, the folder d, and next to it the folder d2.
P(parts) == join(<<"/">>, parts)
Clone ==
    LET r == local_path IN
    (<<"/">> :> Dir) @@ (r :> Dir)
    @@ (path_join2(r, DOT_GIT) :> Dir)
    @@ (path_join3(r, DOT_GIT, <<"c">>) :> File(<<"c">>))
    @@ (path_join2(r, <<"d">>) :> Dir)
    @@ (path_join3(r, <<"d">>, GITKEEP) :> File(<<>>))
    @@ (path_join2(r, <<"d", "2">>) :> Dir)
    @@ (path_join3(r, <<"d", "2">>, <<"s">>) :> File(<<"s">>))

BaseFolders == {<<>>, <<"d">>}
Contents == {<<"x">>}

\* The paths callers pass: the sandbox root, names below it, names with a
\* .git segment, and names that lead out of the sandbox.
RelPaths ==
    {<<>>,
     P(<<<<"a">>>>),
     P(<<<<"a">>, <<"a">>>>),
     P(<<DOT_GIT>>),
     P(<<<<"a">>, DOT_GIT, <<"a">>>>),
     P(<<<<".", ".">>>>),
     P(<<<<".", ".">>, <<"d", "2">>, <<"s">>>>),
     P(<<<<".", ".">>, DOT_GIT>>),
     P(<<<<>>, <<"a">>>>)}

\* The new names rename_path is asked for.
NewPaths ==
    {P(<<<<"a">>>>),
     P(<<<<"a">>, <<"a">>>>),
     P(<<DOT_GIT>>),
     P(<<<<".", ".">>, <<"d", "2">>, <<"s">>>>)}

NoCall ==
    [n |-> 0, op |-> "none", path |-> <<>>, path2 |-> <<>>,
     content |-> <<>>, res |-> OK, out |-> NoOut, touched |-> FALSE,
     changed |-> FALSE]

\* ------------------------------------------------------------ permissions
\* AuthLevel: the stronger the level, the smaller its number.
READ == 3
WRITE == 2
ADMIN == 1
AuthLevel == {READ, WRITE, ADMIN}

\* Permissions: each list is Optional, so a null in the file loads as None;
\* a list left out loads as the empty list.
Null == [null |-> TRUE]
List(items) == [null |-> FALSE, items |-> items]
PermissionLists == {Null} \cup {List(items) : items \in SUBSET Users}
Permissions(read, write, admin) ==
    [null |-> FALSE, read |-> read, write |-> write, admin |-> admin]
DefaultPermissions == Permissions(List({}), List({}), List({}))
AllPermissions ==
    {Null} \cup {Permissions(r, w, a) : r, w, a \in PermissionLists}

\* What a check returns, or the exception it raises.
Returns(value) == [raised |-> None, value |-> value]
Raises(exception) == [raised |-> exception, value |-> FALSE]

\* `username in lst`: a TypeError when the list is None.
contains(lst, username, Then, Else) ==
    IF lst.null THEN Raises("TypeError")
    ELSE IF username \in lst.items THEN Then ELSE Else

\* RepoConfig.has_permission
has_permission(perms, username, authLevel) ==
    IF perms.null THEN Raises("AttributeError")
    ELSE contains(perms.admin, username, Returns(authLevel >= ADMIN),
         contains(perms.write, username, Returns(authLevel >= WRITE),
         contains(perms.read, username, Returns(authLevel >= READ),
                  Returns(FALSE))))

\* has_access_to_repo: reposFile.get_repo is None for an id not configured.
has_access_to_repo(repos, perms, repo_id, user, auth_level) ==
    IF repo_id \notin repos THEN Raises("HTTP_404")
    ELSE has_permission(perms, user, auth_level)

\* verify_repo_access_with_level(required_level).verify
verify(repos, perms, repo_id, user, required_level) ==
    Let(has_access_to_repo(repos, perms, repo_id, user, required_level),
        LAMBDA has_access :
            IF has_access.raised # None THEN has_access.raised
            ELSE IF ~has_access.value THEN "HTTP_403"
            ELSE user)

NoAccess ==
    [repo_id |-> NoOne, user |-> NoOne, level |-> READ,
     has |-> Returns(FALSE), out |-> NoOne]

AuthInit(perms) ==
    /\ permissions \in perms
    /\ access = NoAccess

\* One request passes the dependency of a route.
Verify ==
    \E repo_id \in Repos, user \in Users, level \in AuthLevel :
        /\ access' = [repo_id |-> repo_id, user |-> user, level |-> level,
                      has |-> has_access_to_repo(repos_config, permissions,
                                                 repo_id, user, level),
                      out |-> verify(repos_config, permissions, repo_id,
                                     user, level)]
        /\ UNCHANGED <<permissions, base_folder, fs, last, git, TaskVars>>

HandleInit(bases) ==
    /\ base_folder \in bases
    /\ fs = Clone
    /\ last = NoCall
    /\ git = FreshClone
    /\ AuthInit({DefaultPermissions})

CallWith(op, path, path2, content, r) ==
    /\ last.n < MaxCalls
    /\ fs' = r.fs
    /\ last' = [n |-> last.n + 1, op |-> op, path |-> path, path2 |-> path2,
                content |-> content, res |-> r.res, out |-> r.out,
                touched |-> r.touched, changed |-> r.fs # fs]
    /\ UNCHANGED <<base_folder, git, AuthVars, TaskVars>>

Call(op, path, path2, r) == CallWith(op, path, path2, <<>>, r)

MakeFolder ==
    \E p \in RelPaths : Call("make_folder", p, <<>>, make_folder(fs, p))
DeleteFolder ==
    \E p \in RelPaths : Call("delete_folder", p, <<>>, delete_folder(fs, p))
DeleteFile ==
    \E p \in RelPaths : Call("delete_file", p, <<>>, delete_file(fs, p))
WriteFile ==
    \E p \in RelPaths, c \in Contents :
        CallWith("write_file", p, <<>>, c, write_file(fs, p, c))
ReadFile ==
    \E p \in RelPaths : Call("read_file", p, <<>>, read_file(fs, p))
RenamePath ==
    \E p \in RelPaths, q \in NewPaths :
        Call("rename_path", p, q, rename_path(fs, p, q))
ListFilesOnly ==
    \E p \in RelPaths :
        Call("list_files_only", p, <<>>, list_files_only(fs, p))
ListFoldersOnly ==
    \E p \in RelPaths :
        Call("list_folders_only", p, <<>>, list_folders_only(fs, p))
ListAll ==
    \E p \in RelPaths : Call("list_all", p, <<>>, list_all(fs, p))
DoesPathExist ==
    \E p \in RelPaths :
        Call("does_path_exist", p, <<>>, does_path_exist(fs, p))
GetTree ==
    \E p \in RelPaths : Call("get_tree", p, <<>>, get_tree(fs, p))
ManageGitKeep ==
    \E p \in RelPaths :
        Call("manage_git_keep", p, <<>>, manage_git_keep(fs, p))

\* ---------------------------------------------------------- specifications
Init == TaskInit(SUBSET Repos) /\ HandleInit({<<"d">>})

\* The task manager with the registry and its hot reload; the clock stands.
Next ==
    \/ Enqueue({"u1"})
    \/ TaskStep
    \/ ReloadWake
    \/ ReloadLoadReturns
    \/ ReloadCheckoutReturns
    \/ ReloadRebaseReturns
    \/ EditConfig

Spec == Init /\ [][Next]_vars

\* The task manager with the task store's clock and cleanup sweep; the
\* repositories file is not edited.
StoreNext ==
    \/ Enqueue({"u1"})
    \/ TaskStep
    \/ CleanupSweep
    \/ Tick

StoreSpec == Init /\ [][StoreNext]_vars

\* The task manager serving two users; the repositories are not reloaded
\* and the clock stands.
UsersNext ==
    \/ Enqueue(Users)
    \/ TaskStep

UsersSpec == TaskInit({Repos}) /\ HandleInit({<<"d">>}) /\ [][UsersNext]_vars

\* The read routes beside the task manager: the handle whose calls are
\* modelled is the one of rA, the only repository configured.  A read route
\* looks the handler up and calls it; it takes no lock.
ReadRepo == "rA"
ReadOps ==
    {"read_file", "list_files_only", "list_folders_only", "does_path_exist",
     "get_tree"}
ReadNext ==
    \/ Enqueue({"u1"})
    \/ TaskStep
    \/ ReadFile
    \/ ListFilesOnly
    \/ ListFoldersOnly
    \/ DoesPathExist
    \/ GetTree

ReadSpec ==
    TaskInit({{ReadRepo}}) /\ HandleInit({<<"d">>}) /\ [][ReadNext]_vars

\* The task manager serving the rename route beside the other routes.
RenameNext ==
    \/ Enqueue({"u1"})
    \/ EnqueueRename({"u1"})
    \/ TaskStep

RenameSpec ==
    TaskInit({Repos}) /\ HandleInit({<<"d">>}) /\ [][RenameNext]_vars

\* The registry, its hot reload and the periodic sync loops, without tasks.
ReloadNext ==
    \/ ReloadWake
    \/ ReloadLoadReturns
    \/ ReloadCheckoutReturns
    \/ ReloadRebaseReturns
    \/ EditConfig
    \/ SyncStep

ReloadSpec == Init /\ [][ReloadNext]_vars

\* Tasks, the hot reload and the periodic sync loops together, for a
\* repositories file that lists rA or nothing.
SyncNext ==
    \/ Enqueue({"u1"})
    \/ TaskStep
    \/ ReloadWake
    \/ ReloadLoadReturns
    \/ ReloadCheckoutReturns
    \/ ReloadRebaseReturns
    \/ EditConfigTo({[kind |-> "valid", repos |-> c] : c \in SUBSET {"rA"}})
    \/ SyncStep

SyncSpec == TaskInit({{"rA"}}) /\ HandleInit({<<"d">>}) /\ [][SyncNext]_vars

\* One AsyncGit handle and the working tree it serves, called by one caller
\* at a time (its repository lock is held around every call).
HandleNext ==
    \/ MakeFolder
    \/ DeleteFolder
    \/ DeleteFile
    \/ WriteFile
    \/ ReadFile
    \/ RenamePath
    \/ ListFilesOnly
    \/ ListFoldersOnly
    \/ ListAll
    \/ DoesPathExist
    \/ GetTree
    \/ ManageGitKeep

HandleSpec ==
    TaskInit({Repos}) /\ HandleInit(BaseFolders) /\ [][HandleNext]_vars

\* The same handle called with paths inside its sandbox only, for every way
\* the base folder is written in the repositories file.
AllBaseFolders == {<<>>, <<"d">>, <<"d", "/">>, <<".", "/", "d">>}

TreePaths ==
    {<<>>,
     <<".">>,
     P(<<<<"a">>, <<".", ".">>>>),
     P(<<<<"a">>>>),
     P(<<<<"a">>, <<"a">>>>),
     P(<<GITKEEP>>),
     P(<<<<"a">>, GITKEEP>>)}

TreeNewPaths ==
    {P(<<<<"a">>>>),
     P(<<<<"b">>, <<"a">>>>),
     P(<<<<"a">>, GITKEEP>>)}

TreeNext ==
    \/ \E p \in TreePaths : Call("make_folder", p, <<>>, make_folder(fs, p))
    \/ \E p \in TreePaths :
           Call("delete_folder", p, <<>>, delete_folder(fs, p))
    \/ \E p \in TreePaths : Call("delete_file", p, <<>>, delete_file(fs, p))
    \/ \E p \in TreePaths, c \in Contents :
           CallWith("write_file", p, <<>>, c, write_file(fs, p, c))
    \/ \E p \in TreePaths : Call("read_file", p, <<>>, read_file(fs, p))
    \/ \E p \in TreePaths, q \in TreeNewPaths :
           Call("rename_path", p, q, rename_path(fs, p, q))

TreeSpec ==
    TaskInit({Repos}) /\ HandleInit(AllBaseFolders) /\ [][TreeNext]_vars

\* The handle called with names that end in .git without being .git.
DotGitNames ==
    {P(<<<<"a">> \o DOT_GIT>>),
     P(<<<<"a">> \o DOT_GIT, <<"a">>>>),
     P(<<<<"a">>>>)}

DotGitNext ==
    \/ \E p \in DotGitNames :
           Call("make_folder", p, <<>>, make_folder(fs, p))
    \/ \E p \in DotGitNames, c \in Contents :
           CallWith("write_file", p, <<>>, c, write_file(fs, p, c))
    \/ \E p \in DotGitNames : Call("read_file", p, <<>>, read_file(fs, p))
    \/ \E p \in DotGitNames :
           Call("list_all", p, <<>>, list_all(fs, p))

DotGitSpec ==
    TaskInit({Repos}) /\ HandleInit(AllBaseFolders) /\ [][DotGitNext]_vars

\* The git side of the handle: the two git methods a task runs, the working
\* tree changed by the task's action, and other clones pushing to the remote
\* or rewriting its main branch.
SyncFaults ==
    {"none", "load", "checkout", "reset", "clean", "fetch",
     "fetch_unreachable", "rebase"}
CommitFaults == {"none", "load", "add", "commit", "push"}
GitMessages == {<<"m">>, <<"a", " ">> \o NOTHING_TO_COMMIT}

GitCall(op, r) ==
    /\ last.n < MaxCalls
    /\ git' = r.git
    /\ last' = [NoCall EXCEPT !.n = last.n + 1, !.op = op, !.res = r.res]
    /\ UNCHANGED <<base_folder, fs, AuthVars, TaskVars>>

CloneOrSync ==
    \E f \in SyncFaults : GitCall("clone_or_sync", clone_or_sync(git, f))

CommitAndPush ==
    /\ git.n < MaxCommits
    /\ \E m \in GitMessages, f \in CommitFaults :
          GitCall("commit_and_push", commit_and_push(git, m, f))

Branches == {"main", "b"}
CheckoutFaults ==
    {"none", "load", "checkout", "push", "reset", "clean", "fetch",
     "fetch_unreachable", "rebase"}

Checkout ==
    \E b \in Branches, f \in CheckoutFaults :
        /\ last.n < MaxCalls
        /\ git' = checkout(git, b, f).git
        /\ last' = [NoCall EXCEPT !.n = last.n + 1, !.op = "checkout",
                                  !.path = <<b>>,
                                  !.res = checkout(git, b, f).res]
        /\ UNCHANGED <<base_folder, fs, AuthVars, TaskVars>>

WorkTreeChange ==
    /\ \E d, u \in BOOLEAN :
          /\ d \/ u
          /\ git' = [git EXCEPT !.dirty = @ \/ d, !.untracked = @ \/ u]
    /\ UNCHANGED <<base_folder, fs, last, AuthVars, TaskVars>>

RemotePush ==
    /\ git.n < MaxCommits
    /\ git' = [git EXCEPT !.remote = Append(@, CommitName[git.n + 1]),
                          !.n = @ + 1]
    /\ UNCHANGED <<base_folder, fs, last, AuthVars, TaskVars>>

RemoteRewrite ==
    /\ git.n < MaxCommits
    /\ Len(git.remote) > 1
    /\ git' = [git EXCEPT
                  !.remote = Append(SubSeq(@, 1, Len(@) - 1),
                                    CommitName[git.n + 1]),
                  !.n = @ + 1]
    /\ UNCHANGED <<base_folder, fs, last, AuthVars, TaskVars>>

GitNext ==
    \/ CloneOrSync
    \/ Checkout
    \/ CommitAndPush
    \/ WorkTreeChange
    \/ RemotePush
    \/ RemoteRewrite

\* The clone may start on another branch, with local commits that were not
\* pushed, with changed and with untracked files.
GitInit ==
    /\ TaskInit({Repos})
    /\ base_folder = <<"d">>
    /\ fs = Clone
    /\ last = NoCall
    /\ AuthInit({DefaultPermissions})
    /\ \E b \in {"main", "b"}, d, u \in BOOLEAN, k \in 0..1 :
          git = [FreshClone EXCEPT
                    !.branch = b, !.dirty = d, !.untracked = u,
                    !.other = IF b = "main" THEN @ ELSE <<CommitName[1]>>,
                    !.main = IF k = 1 THEN Append(@, CommitName[2]) ELSE @,
                    !.n = 1 + k]

GitSpec == GitInit /\ [][GitNext]_vars

\* -- Permission checks against every Permissions the schema admits, for the
\*    configured repository rA and the unknown rB.
AnyPermissions ==
    /\ TaskInit({{"rA"}})
    /\ base_folder = <<"d">> /\ fs = Clone /\ last = NoCall /\ git = FreshClone
    /\ AuthInit(AllPermissions)

AuthSpec == AnyPermissions /\ [][Verify]_vars



\* ------------------------------------------------------------------ claims
Created(t) == run[t].pc # "unborn"
Removed(t) == Created(t) /\ t \notin DOMAIN task_store

\* C1: for every repository identifier at most one task is between the start
\* of its clone_or_sync and the end of its commit_and_push.
C1_OneTaskPerRepo ==
    \A r \in Repos :
        Cardinality({t \in TaskIds : run[t].pc \in InCritical
                                     /\ run[t].repo_id = r}) <= 1

\* What the claims about paths speak of: the segments of the normalized
\* absolute form of a path given to the handle, the sandbox root and its
\* descendants, and the paths the last call was given.
PathSegments(path) ==
    SelectSeq(split(abspath(path_join3(local_path, base_folder, path)), "/"),
              LAMBDA c : c # <<>>)
InSandbox(path) ==
    LET root == PathSegments(<<>>)
        segs == PathSegments(path)
    IN  Len(root) <= Len(segs) /\ SubSeq(segs, 1, Len(root)) = root
HasGitSegment(path) ==
    \E i \in 1..Len(PathSegments(path)) : PathSegments(path)[i] = DOT_GIT
Supplied(call) ==
    {call.path} \cup (IF call.op = "rename_path" THEN {call.path2} ELSE {})
Denied(call) ==
    call.res = "PathAccessDenied" /\ ~call.touched /\ ~call.changed

\* C2: a call given a path whose normalized absolute form is neither the
\* sandbox root nor below it raises PathAccessDenied and neither reads nor
\* changes the file system.
C2_OutsideIsDenied ==
    (last.op # "none" /\ \E p \in Supplied(last) : ~InSandbox(p))
        => Denied(last)

\* C3: a call given a path that has, once normalized, a segment named .git
\* raises PathAccessDenied (never a not-found or invalid-path error) and
\* neither reads nor changes the file system, whether or not the target
\* exists.
C3_GitSegmentIsDenied ==
    (last.op # "none" /\ \E p \in Supplied(last) : HasGitSegment(p))
        => Denied(last)

\* A call on something that exists inside the sandbox and has a .git segment
\* was refused.
C3_Witness ==
    /\ last.op # "none"
    /\ last.res = "PathAccessDenied"
    /\ \E p \in Supplied(last) :
           /\ HasGitSegment(p) /\ InSandbox(p)
           /\ exists(fs, _abs_path(p).path)

\* C11: read_file(p) made right after a write_file(p, c) that succeeded
\* returns c.
C11_WriteThenReadReturnsContent ==
    [][(/\ last.op = "write_file" /\ last.res = OK
        /\ last'.n = last.n + 1
        /\ last'.op = "read_file" /\ last'.path = last.path)
           => (last'.res = OK /\ last'.out.text = last.content)]_vars

\* What the claims about placeholders speak of: the directories inside the
\* sandbox, the methods that change the tree, and a call of one of them that
\* ended without an exception.
SandboxRoot == abspath(path_join2(local_path, base_folder))
SandboxDirsOf(f) ==
    {d \in DOMAIN f : isdir(f, d) /\ (d = SandboxRoot \/ Below(SandboxRoot, d))}
SandboxDirs == SandboxDirsOf(fs)
Mutating ==
    {"make_folder", "delete_folder", "delete_file", "write_file",
     "rename_path"}
Succeeded(call) == call.op \in Mutating /\ call.res = OK
NoMixedKeep ==
    \A d \in SandboxDirs :
        GITKEEP \in listdir(fs, d) => Cardinality(listdir(fs, d)) = 1

\* C12: a mutating call that succeeds on a tree in which no directory of the
\* sandbox holds a .gitkeep next to another entry leaves such a tree.
C12_KeepNeverMixed ==
    [][(NoMixedKeep /\ last'.n # last.n /\ Succeeded(last'))
           => NoMixedKeep']_vars

NoEmptyDirIn(f) == \A d \in SandboxDirsOf(f) : listdir(f, d) # {}
NoEmptyDir == NoEmptyDirIn(fs)

\* C13: after a mutating call that succeeds no directory of the sandbox is
\* empty.
C13_NoEmptyDirectory == Succeeded(last) => NoEmptyDir

\* C14: delete_folder given a path that resolves to the sandbox root raises
\* PathAccessDenied and changes nothing, whatever the base folder.
C14_RootIsNeverDeleted ==
    (/\ last.op = "delete_folder"
     /\ abspath(path_join3(local_path, base_folder, last.path)) = SandboxRoot)
        => (last.res = "PathAccessDenied" /\ ~last.changed)

\* C15: rename_path given an old path that does not exist fails with the
\* not-found kind of error and changes nothing.
C15_RenameOfMissingIsNotFound ==
    (/\ last.op = "rename_path"
     /\ _abs_path(last.path).ok /\ _abs_path(last.path2).ok
     /\ ~last.changed
     /\ ~exists(fs, _abs_path(last.path).path))
        => last.res \in {"PathNotFound", "FileNotFound", "FolderNotFound"}

\* C16: the run of a task whose repository identifier is not in the registry
\* ends at its first step: the task is failed with the repository-not-found
\* message, no lock is touched and no git step is entered.
C16_UnknownRepoFails ==
    [][\A t \in TaskIds :
          (/\ run[t].pc = "scheduled" /\ run'[t].pc # "scheduled"
           /\ run[t].repo_id \notin DOMAIN git_instances)
          => /\ t \in DOMAIN task_store'
             /\ task_store'[t].status = FAILED
             /\ task_store'[t].error = "Repo ID not found"
             /\ run'[t].pc = "done"
             /\ locks' = locks]_vars

\* C17: a task that holds its repository's lock is never failed by the
\* removal of the repository from the registry: it does not end with the
\* repository-not-found error, and its action runs on the handle its
\* clone_or_sync ran on.
C17_RemovalSparesLockHolder ==
    [][\A t \in TaskIds :
          /\ (run[t].pc \in InCritical /\ run'[t].pc \in Ended)
             => run'[t].raised # "Repo ID not found"
          /\ run'[t].pc \in {"action", "commit"}
             => run'[t].action_handler = run'[t].git_handler]_vars

\* C18: no task enters its critical section (the start of clone_or_sync,
\* followed by its action and commit_and_push) for a repository identifier
\* that is not in the registry, tasks that waited for the lock included.
C18_NoStartOnRemovedRepo ==
    [][\A t \in TaskIds :
          (run[t].pc \in {"scheduled", "wait_lock"} /\ run'[t].pc = "load")
          => run[t].repo_id \in DOMAIN git_instances]_vars

\* A reload iteration runs to its end: with nothing to add, or when the
\* clone_or_sync of the last identifier to add returns.
IterationEnds ==
    \/ ReloadWake /\ reload'.pc = "sleep"
    \/ reload.pc = "rebase" /\ reload'.pc = "sleep"
LiveLoops(loops, r) ==
    {g \in 1..MaxGen : loops[<<r, g>>].pc \notin {"none", "ended"}}
TimesSynced(synced, r) == Cardinality({i \in DOMAIN synced : synced[i] = r})

\* C19: at the end of a reload iteration the registry holds a handle and a
\* lock for exactly the identifiers of the loaded configuration; every
\* identifier the iteration added was synced once, by the reload loop holding
\* the new lock, and has exactly one periodic sync loop.
C19_RegistryFollowsConfig ==
    [][/\ reload'.pc \in InClone
          => locks'[<<reload'.cur, git_locks'[reload'.cur]>>].holder = ReloadLoop
       /\ IterationEnds
          => /\ DOMAIN git_instances' = repos_config'
             /\ DOMAIN git_locks' = repos_config'
             /\ \A r \in reload.added :
                   /\ TimesSynced(Append(reload.synced, reload.cur), r) = 1
                   /\ Cardinality(LiveLoops(sync_loops', r)) = 1]_vars

\* C20: a reload iteration that finds the repositories file missing,
\* unparsable or not fitting the schema keeps the configuration it had,
\* leaves the registry's handles and locks as they were, and the loop goes on.
C20_BadFileChangesNothing ==
    [][(ReloadWake /\ config_file.kind # "valid")
          => /\ repos_config' = repos_config
             /\ git_instances' = git_instances
             /\ git_locks' = git_locks
             /\ locks' = locks
             /\ reload'.pc = "sleep"
             /\ reload'.load # None]_vars

\* The latest iteration found a file it could not load while the registry
\* held a handle, and the loop sleeps towards its next iteration.
C20_Witness ==
    /\ config_file.kind # "valid"
    /\ reload.load \in {"ConfigError", "JSONDecodeError"}
    /\ reload.pc = "sleep"
    /\ repos_config # {}
    /\ DOMAIN git_instances = repos_config
    /\ DOMAIN git_locks = repos_config

\* C21: a background loop never ends: the reload loop survives an iteration
\* in which the clone_or_sync of a new repository fails.
C21_LoopsKeepIterating == reload.pc # "dead"

\* C22: a periodic pull runs holding its repository's lock, and never while
\* a task is between the start of its clone_or_sync and the end of its
\* commit_and_push on the same repository, nor during the initial sync of
\* that repository by the reload loop.
C22_PullHoldsLock ==
    \A l \in LockIds :
        sync_loops[l].pc = "pull"
        => /\ locks[sync_loops[l].lock].holder = SyncName[l[1]][l[2]]
           /\ \A t \in TaskIds :
                 ~(run[t].pc \in InCritical /\ run[t].repo_id = l[1])
           /\ ~(reload.pc \in InClone /\ reload.cur = l[1])

\* C23: a sync loop starts a pull only for the handler the registry holds
\* for its identifier, so the loop of a removed handler pulls no more; and
\* between reload iterations every registered identifier has one live sync
\* loop, the one of its current handler.
C23_RemovedLoopStops ==
    [][/\ \A l \in LockIds :
             (sync_loops[l].pc = "sleep"
                /\ sync_loops'[l].pc \in {"wait_lock", "pull"})
             => /\ l[1] \in DOMAIN git_instances
                /\ git_instances[l[1]] = l[2]
                /\ sync_loops'[l].lock = <<l[1], git_locks[l[1]]>>
       /\ reload'.pc = "sleep"
             => \A r \in DOMAIN git_instances' :
                   LiveLoops(sync_loops', r) = {git_instances'[r]}]_vars

Synced(g) ==
    /\ g.branch = "main" /\ ~g.dirty /\ ~g.untracked
    /\ g.main = g.remote /\ g.origin = g.remote

\* C24: when clone_or_sync returns normally the clone is on main, clean,
\* without untracked files and level with the remote main branch; a second
\* call made on that state, the remote unchanged, changes nothing.
C24_SyncMakesCloneLevel ==
    [][(/\ last'.n = last.n + 1
        /\ last'.op = "clone_or_sync" /\ last'.res = OK)
          => /\ Synced(git')
             /\ (last.op = "clone_or_sync" /\ last.res = OK
                   /\ git.remote = git.origin /\ ~git.dirty /\ ~git.untracked)
                => git' = git]_vars

\* C25: commit_and_push with nothing staged returns without a commit or a
\* push; with changes and no failing git command it commits and pushes once;
\* a git command that fails makes it raise GitCommitError, whatever the
\* commit message; it raises nothing else.
C25_CommitErrorOnly ==
    last.op = "commit_and_push" /\ git.fault # "load"
    => /\ last.res \in {OK, "GitCommitError"}
       /\ git.committed => git.pushes = 1
       /\ ~git.committed => git.pushes = 0
       /\ (~git.staged /\ git.fault # "add")
             => (last.res = OK /\ ~git.committed)
       /\ (git.staged /\ git.fault = "none")
             => (last.res = OK /\ git.committed)
       /\ (git.staged /\ git.fault # "none") => last.res = "GitCommitError"

RECURSIVE Flatten(_, _)
\* The paths a tree node stands for, each with the type the node gives it.
Flatten(node, path) ==
    {<<path, node.type>>}
        \cup IF node.type = "folder"
             THEN UNION {Flatten(c, path_join2(path, c.name)) :
                            c \in node.children}
             ELSE {}

\* What is at or under directory p, left out what is reached through an
\* entry named .git.
EntriesUnder(f, p) ==
    {<<q, IF isdir(f, q) THEN "folder" ELSE "file">> :
        q \in {x \in DOMAIN f :
                 \/ x = p
                 \/ /\ Below(p, x)
                    /\ DOT_GIT \notin
                          Range(SubSeq(split(x, "/"),
                                       Len(split(p, "/")) + 1,
                                       Len(split(x, "/"))))}}

\* C26: get_tree of an existing directory returns a folder node that stands
\* for exactly the entries under it, at every depth, without those named
\* .git; for a path that does not exist it raises FolderNotFound.
C26_TreeIsTheDirectory ==
    (last.op = "get_tree" /\ _abs_path(last.path).ok)
    => /\ isdir(fs, _abs_path(last.path).path)
          => /\ last.res = OK
             /\ last.out.tree[1].name = basename(_abs_path(last.path).path)
             /\ Flatten(last.out.tree[1], _abs_path(last.path).path)
                   = EntriesUnder(fs, _abs_path(last.path).path)
       /\ ~exists(fs, _abs_path(last.path).path)
          => last.res = "FolderNotFound"

\* get_tree of the repository root, which holds .git, a folder with a file
\* and a folder made by a call before.
C26_Witness ==
    /\ last.op = "get_tree" /\ last.res = OK
    /\ base_folder = <<>> /\ last.path = <<>>
    /\ exists(fs, path_join2(local_path, DOT_GIT))
    /\ \E c \in last.out.tree[1].children :
          c.type = "folder" /\ c.name = <<"a">> /\ c.children # {}

\* C27: has_permission(user, level) is true exactly when the user is in the
\* permission list of that level or of a stronger one (ADMIN over WRITE over
\* READ), whatever lists the user is in, and false for a user in no list.
ListOf(perms, level) ==
    IF perms.null THEN {}
    ELSE Let(IF level = ADMIN THEN perms.admin
             ELSE IF level = WRITE THEN perms.write ELSE perms.read,
             LAMBDA lst : IF lst.null THEN {} ELSE lst.items)
Granted(perms, user, level) ==
    \E stronger \in AuthLevel :
        stronger <= level /\ user \in ListOf(perms, stronger)
C27_PermissionIsLevelOrStronger ==
    access.repo_id \in repos_config
    => access.has = Returns(Granted(permissions, access.user, access.level))

\* C28: get_task answers with a task's state only to the user who requested
\* the task, list_tasks(user) is exactly the stored tasks of that user, and
\* no enqueue, completion or failure of another user's task changes what the
\* user's get_task (for any task id) and list_tasks return.
TaskView(store, user) ==
    [get |-> [t \in TaskIds |-> get_task_status(store, t, user)],
     list |-> list_tasks(store, user)]
OthersTasksOnly(user) ==
    /\ task_store' # task_store
    /\ DOMAIN task_store \subseteq DOMAIN task_store'
    /\ \A t \in DOMAIN task_store' :
          task_store'[t].user = user
          => t \in DOMAIN task_store /\ task_store'[t] = task_store[t]
C28_OthersTasksInvisible ==
    [][\A user \in Users :
          OthersTasksOnly(user)
          => TaskView(task_store', user) = TaskView(task_store, user)]_vars

\* C29: within one task clone_or_sync, the action and commit_and_push run at
\* most once each and in that order, each while the task holds the lock the
\* registry keeps for its repository; a step that raises ends the task, with
\* no later step and no retry; and the task is marked completed only when
\* commit_and_push, the last of the three, has returned without error.
StepOrder ==
    {<<"unborn", "scheduled">>, <<"scheduled", "wait_lock">>,
     <<"scheduled", "load">>, <<"wait_lock", "load">>,
     <<"load", "checkout">>, <<"checkout", "rebase">>,
     <<"rebase", "action">>, <<"action", "commit">>}
    \cup (({"scheduled"} \cup InCritical) \X Ended)
C29_StepsOnceInOrder ==
    [][\A t \in TaskIds :
          /\ run'[t].pc # run[t].pc => <<run[t].pc, run'[t].pc>> \in StepOrder
          /\ run'[t].pc \in InCritical
             => /\ run'[t].repo_id \in DOMAIN git_locks'
                /\ run'[t].lock = <<run'[t].repo_id, git_locks'[run'[t].repo_id]>>
                /\ locks'[run'[t].lock].holder = t
          /\ (run[t].pc \in InCritical /\ run'[t].raised # None)
             => run'[t].pc \in Ended
          /\ (/\ t \in DOMAIN task_store'
              /\ task_store'[t].status = COMPLETED
              /\ t \in DOMAIN task_store => task_store[t].status # COMPLETED)
             => /\ run[t].pc = "commit"
                /\ run'[t].pc = "done"
                /\ run'[t].raised = None]_vars

\* C30: a task that was marked failed, or whose run has ended in any way,
\* holds no lock and waits for none: the lock it held when its clone_or_sync,
\* action or commit_and_push raised was released no later than the task was
\* marked failed, so a later task on the repository can take it.
C30_FailedTaskHoldsNoLock ==
    \A t \in TaskIds :
        (\/ run[t].pc \in Ended
         \/ t \in DOMAIN task_store /\ task_store[t].status = FAILED)
        => \A l \in LockIds :
              /\ locks[l].holder # t
              /\ \A i \in DOMAIN locks[l].waiters : locks[l].waiters[i] # t

C30_Witness ==
    /\ run[TaskName[1]].pc = "done"
    /\ run[TaskName[1]].raised \in
          {"Failed to clone repository", "git checkout failed",
           "Git rebase failed.", "action failed", "Git commit failed."}
    /\ TaskName[1] \in DOMAIN task_store
    /\ task_store[TaskName[1]].status = FAILED
    /\ run[TaskName[2]].repo_id = run[TaskName[1]].repo_id
    /\ enqueued_at[TaskName[2]] > enqueued_at[TaskName[1]]
    /\ run[TaskName[2]].pc \in InCritical
    /\ locks[run[TaskName[2]].lock].holder = TaskName[2]

\* C31: tasks on one repository enter their critical sections in the order
\* of their enqueue_task calls: while a task is between the start of its
\* clone_or_sync and the end of its commit_and_push, the run of every task
\* enqueued before it on the same repository has ended.
C31_SubmissionOrder ==
    \A a, b \in 1..MaxTasks :
        (/\ a < b
         /\ run[TaskName[b]].pc \in InCritical
         /\ run[TaskName[a]].repo_id = run[TaskName[b]].repo_id)
        => run[TaskName[a]].pc \in Ended

\* C32: delete_folder on an existing folder inside the sandbox, other than
\* the sandbox root, succeeds and leaves the folder absent, also when the
\* folder holds the .gitkeep that make_folder put in it.
C32_DeleteFolderRemoves ==
    (/\ last.op = "delete_folder"
     /\ last.res \notin {"PathAccessDenied", "FolderNotFound"}
     /\ PathSegments(last.path) # PathSegments(<<>>))
    => /\ last.res = OK
       /\ ~exists(fs, _abs_path(last.path).path)

\* C33: checkout(b) on a handle whose current branch is b runs no git
\* command and changes nothing; otherwise, when it returns normally, the
\* working copy is on b, the handle records b, _rebase has run once, and a
\* branch that did not exist was created and pushed upstream before that.
C33_CheckoutSwitchesOnce ==
    [][(last'.n = last.n + 1 /\ last'.op = "checkout")
          => /\ last'.path[1] = git.self_branch
                => (git' = git /\ last'.res = OK)
             /\ (last'.path[1] # git.self_branch /\ last'.res = OK)
                => /\ git'.branch = last'.path[1]
                   /\ git'.self_branch = last'.path[1]
                   /\ git'.rebases = 1
                   /\ Tip(git') = git'.origin
                          \o SelectSeq(Tip(git'),
                                       LAMBDA c : c \notin Range(git'.origin))
                   /\ (last'.path[1] = "b" /\ git.other = <<>>)
                      => (git'.created /\ git'.upstream /\ git'.pushes = 1)
                   /\ ~(last'.path[1] = "b" /\ git.other = <<>>)
                      => (~git'.created /\ git'.pushes = 0)]_vars

C33_Witness ==
    /\ last.op = "checkout" /\ last.res = OK /\ last.path = <<"b">>
    /\ git.created /\ git.upstream /\ git.branch = "b"
    /\ git.self_branch = "b" /\ git.rebases = 1

\* C38: after a checkout or a clone_or_sync that returned normally, the
\* branch the handle records as current is the branch checked out in the
\* working copy.
C38_RecordedBranchIsCheckedOut ==
    (last.op \in {"checkout", "clone_or_sync"} /\ last.res = OK)
    => git.self_branch = git.branch

\* C34: a task of the rename route, for an existing old path and a valid
\* new path, reaches completed: once its clone_or_sync has returned on a
\* registered repository, its action does not fail for a reason of its own.
C34_RenameTaskCompletes ==
    \A t \in TaskIds :
        run[t].message = RENAME_MESSAGE => run[t].raised # NAME_ERROR

\* C35: while a task's action works on a working copy, the lock the task
\* holds is the lock built with the handle the action operates on, and two
\* tasks inside their critical sections on one repository identifier never
\* hold different locks.
C35_ActionUnderHandleLock ==
    /\ \A t \in TaskIds :
          run[t].pc = "action" => run[t].action_handler = run[t].lock
    /\ \A t, u \in TaskIds :
          (/\ run[t].pc \in InCritical /\ run[u].pc \in InCritical
           /\ run[t].repo_id = run[u].repo_id)
          => run[t].lock = run[u].lock

\* C36: a read of a repository's working copy (read_file, list_files_only,
\* list_folders_only, does_path_exist, get_tree) is never made while a task
\* is inside its critical section on that repository, between the start of
\* its clone_or_sync and the end of its commit_and_push.
C36_ReadsOutsideCriticalSections ==
    [][(last'.n = last.n + 1 /\ last'.op \in ReadOps)
          => \A t \in TaskIds :
                ~(run[t].pc \in InCritical /\ run[t].repo_id = ReadRepo)]_vars

\* C37: a relative path that normalizes to the sandbox root or below it and
\* has no segment equal to .git is never refused with PathAccessDenied, names
\* that only end in .git included.
C37_DotGitSuffixIsAllowed ==
    (/\ last.op # "none"
     /\ InSandbox(last.path)
     /\ DOT_GIT \notin Range(PathSegments(last.path)))
    => last.res # "PathAccessDenied"

\* C39: in every state of the task store a pending task has no result and
\* no error, a completed task has its description as result and no error, a
\* failed task has an error and no result, and no task was last updated
\* before it was created.
C39_TaskFieldsFitStatus ==
    \A t \in DOMAIN task_store :
        /\ task_store[t].status = IN_PROGRESS
           => (task_store[t].result = None /\ task_store[t].error = None)
        /\ task_store[t].status = COMPLETED
           => /\ task_store[t].result = task_store[t].description
              /\ task_store[t].error = None
        /\ task_store[t].status = FAILED
           => (task_store[t].error # None /\ task_store[t].result = None)
        /\ task_store[t].updated_at >= task_store[t].created_at

C39_Witness ==
    \E a, b \in DOMAIN task_store :
        /\ task_store[a].status = COMPLETED
        /\ task_store[a].result = task_store[a].description
        /\ task_store[a].updated_at > task_store[a].created_at
        /\ task_store[b].status = FAILED
        /\ task_store[b].error = "Git commit failed."

\* C40: at every suspension point the handle map and the lock map of the
\* registry have the same repository identifiers, and the lock of an
\* identifier is the one built together with its handle, across startup and
\* every hot-reload add or remove.
C40_RegistryMapsAgree ==
    /\ DOMAIN git_instances = DOMAIN git_locks
    /\ \A r \in DOMAIN git_instances : git_instances[r] = git_locks[r]

C40_Witness ==
    \E r, q \in Repos :
        /\ r \in DOMAIN git_instances /\ r \in DOMAIN git_locks
        /\ git_instances[r] = 2
        /\ reload.pc = "load" /\ reload.cur = r
        /\ q \notin DOMAIN git_instances /\ q \notin DOMAIN git_locks
        /\ lock_gen[q] >= 1

\* C4: when the run of a task ends after one of its steps raised, the task is
\* in the store with status failed and the raised message as its error.
C4_RaisedTaskIsFailed ==
    [][\A t \in TaskIds :
          (run[t].pc \notin Ended /\ run'[t].pc \in Ended
             /\ run'[t].raised # None)
          => /\ t \in DOMAIN task_store'
             /\ task_store'[t].status = FAILED
             /\ task_store'[t].error = run'[t].raised]_vars

\* C5: the run coroutine of a task never ends with an unhandled exception.
C5_NothingEscapesRun ==
    \A t \in TaskIds : run[t].pc # "crashed"

\* C6: a task's status leaves pending at most once and never returns to it;
\* once completed or failed its status, result and error stay as they are,
\* and a task that left the store never comes back.
C6_StatusChangesOnce ==
    [][\A t \in TaskIds :
          /\ (t \in DOMAIN task_store /\ t \in DOMAIN task_store')
             => /\ task_store'[t].status = IN_PROGRESS
                   => task_store[t].status = IN_PROGRESS
                /\ task_store[t].status # IN_PROGRESS
                   => /\ task_store'[t].status = task_store[t].status
                      /\ task_store'[t].result = task_store[t].result
                      /\ task_store'[t].error = task_store[t].error
          /\ Removed(t) => t \notin DOMAIN task_store']_vars

C6_Witness ==
    \E a, b \in DOMAIN task_store :
        /\ task_store[a].status = COMPLETED /\ run[a].pc = "done"
        /\ task_store[b].status = FAILED /\ run[b].pc = "done"

\* C7: in the step in which enqueue_task returns a task, the task is in the
\* store with status pending, and its run has looked nothing up, holds or
\* waits for no lock and has started no git operation.
C7_ReturnsBeforeRun ==
    [][\A t \in TaskIds :
          returned'[t] # returned[t]
          => /\ t \in DOMAIN task_store'
             /\ task_store'[t].status = IN_PROGRESS
             /\ returned'[t] = [task_id |-> t, status |-> IN_PROGRESS]
             /\ run'[t].pc = "scheduled"
             /\ run'[t].git_handler = NoHandle
             /\ run'[t].lock = NoHandle
             /\ locks' = locks]_vars

C7_Witness ==
    \E t \in TaskIds :
        /\ returned[t].task_id = t
        /\ run[t].pc = "scheduled"
        /\ run[t].repo_id \in DOMAIN git_locks
        /\ t \in DOMAIN task_store

\* C8: a task inside its critical section on one repository never keeps a
\* task on another repository, whose own lock is free or its own, from
\* taking its next step.
StepOf(t) ==
    \/ RunStart(t)
    \/ LoadReturns(t)
    \/ CheckoutReturns(t)
    \/ RebaseReturns(t)
    \/ ActionReturns(t)
    \/ CommitReturns(t)

C8_OtherRepoNotBlocked ==
    \A a, b \in TaskIds :
        (/\ run[a].pc \in InCritical
         /\ run[b].pc \in InCritical \cup {"scheduled"}
         /\ run[a].repo_id # run[b].repo_id)
        => ENABLED StepOf(b)

\* C9: a sweep removes every task whose updated_at is older than the
\* expiration window, whatever its status; a removed task stays removed and
\* get_task_status answers TaskNotFound for it, to every user.
C9_ExpiredIsRemoved ==
    /\ [][CleanupSweep
            => \A t \in DOMAIN task_store :
                  (now - task_store[t].updated_at) > TASK_EXPIRATION
                  => t \notin DOMAIN task_store']_vars
    /\ [][\A t \in TaskIds : Removed(t) => Removed(t)']_vars
    /\ [](\A t \in TaskIds : Removed(t)
            => \A u \in Users :
                  get_task_status(task_store, t, u) = "TaskNotFound")

C9_Witness ==
    \E a, b \in TaskIds :
        /\ Removed(a) /\ run[a].pc \in InCritical
        /\ Removed(b) /\ run[b].pc = "done"

\* C10: a sweep removes a task only when more than the expiration window has
\* passed since its last update, or since its creation if never updated.
LastTouched(t) ==
    IF task_store[t].status = IN_PROGRESS
    THEN enqueued_at[t] ELSE task_store[t].updated_at

C10_OnlyExpiredIsRemoved ==
    [][\A t \in DOMAIN task_store :
          t \notin DOMAIN task_store'
          => (now - LastTouched(t)) > TASK_EXPIRATION]_vars
====
